---- MODULE Spec2Model ----
(***************************************************************************)
(* Model of chaospy/orthogonal/lagrange.py: lagrange_polynomial.           *)
(*                                                                         *)
(* One call of lagrange_polynomial is followed statement by statement.     *)
(* Arithmetic is exact: every number is an integer, and a quantity the     *)
(* code divides by the determinant is kept as a numerator together with    *)
(* its denominator (records [num, den]).  Arrays are functions on 0..n-1,  *)
(* as in the code.                                                         *)
(***************************************************************************)
EXTENDS Integers, FiniteSets, Sequences, TLC

\* Bounds of the model: at most MaxSize points, in one or two dimensions,
\* with coordinates in Vals.
MaxSize == 4
Dims == 1 .. 2
Vals == -1 .. 1
NoSort == "None"
SortTokens == {NoSort, "GR"}

VARIABLES
    pc,         \* position in lagrange_polynomial
    input,      \* the argument `abscissas` as passed: [ndim, data]
    graded,     \* argument `graded`
    reverse,    \* argument `reverse`
    sort,       \* argument `sort`
    abscissas,  \* local `abscissas` after lines 52-54, shape (dim, size)
    dim,        \* local `dim`
    size,       \* local `size`
    order,      \* local `order`
    indices,    \* local `indices`
    matrix,     \* local `matrix` (rolled in place by the size >= 3 loop)
    det,        \* local `det`
    vec,        \* local `vec`
    coeffs,     \* local `coeffs`: [num |-> matrix, den |-> divisor]
    i,          \* loop variable `i`
    j,          \* loop variable `j`
    k,          \* local `k`
    out,        \* local `out`: [num |-> polynomials, den |-> divisor]
    err,        \* the exception raised, "" when none
    glexArgs,   \* sort options handed to numpoly.glexindex
    basisArgs   \* sort options handed to chaospy.poly.basis (line 71)

vars == <<pc, input, graded, reverse, sort, abscissas, dim, size, order,
          indices, matrix, det, vec, coeffs, i, j, k, out, err,
          glexArgs, basisArgs>>

----------------------------------------------------------------------------
\* Arithmetic helpers.

RECURSIVE Pow(_, _)
\* x ** e of numpy for an integer exponent e >= 0; x ** 0 is 1, also for x = 0.
Pow(x, e) == IF e = 0 THEN 1 ELSE x * Pow(x, e - 1)

RECURSIVE Comb(_, _)
\* scipy.special.comb(n, r): the binomial coefficient.
Comb(n, r) ==
    IF r = 0 THEN 1
    ELSE IF n < r THEN 0
    ELSE (Comb(n - 1, r - 1) * n) \div r

RECURSIVE SumTo(_, _)
\* f[0] + ... + f[n-1]
SumTo(f, n) == IF n = 0 THEN 0 ELSE SumTo(f, n - 1) + f[n - 1]

RECURSIVE ProdTo(_, _)
\* f[0] * ... * f[n-1]: numpy.prod over the last axis
ProdTo(f, n) == IF n = 0 THEN 1 ELSE ProdTo(f, n - 1) * f[n - 1]

----------------------------------------------------------------------------
\* Dense linear algebra on matrices m[row][column] over 0..n-1.

NRows(m) == Cardinality(DOMAIN m)

\* m with row r and column c deleted.
Minor(m, r, c) ==
    LET n == NRows(m) IN
    [a \in 0 .. n - 2 |->
        [b \in 0 .. n - 2 |->
            m[IF a < r THEN a ELSE a + 1][IF b < c THEN b ELSE b + 1]]]

RECURSIVE Det(_)
\* numpy.linalg.det in exact arithmetic: expansion along row 0.
Det(m) ==
    LET n == NRows(m)
        term[c \in 0 .. n - 1] ==
            (IF c % 2 = 0 THEN 1 ELSE -1) * m[0][c] * Det(Minor(m, 0, c))
    IN IF n = 0 THEN 1
       ELSE IF n = 1 THEN m[0][0]
       ELSE SumTo(term, n)

\* The textbook adjugate: entry (a, b) is (-1)^(a+b) times the determinant of
\* m with row b and column a deleted.
Adjugate(m) ==
    LET n == NRows(m) IN
    [a \in 0 .. n - 1 |->
        [b \in 0 .. n - 1 |->
            (IF (a + b) % 2 = 0 THEN 1 ELSE -1) * Det(Minor(m, b, a))]]

\* numpy.linalg.inv in exact arithmetic: adjugate over determinant.
Inv(m) == [num |-> Adjugate(m), den |-> Det(m)]

\* matrix[1:, 1:]
Trailing(m) ==
    LET n == NRows(m) IN
    [a \in 0 .. n - 2 |-> [b \in 0 .. n - 2 |-> m[a + 1][b + 1]]]

\* numpy.roll(m, -1, axis=0): every row moves up by one, row 0 becomes last.
RollRows(m) ==
    LET n == NRows(m) IN [a \in 0 .. n - 1 |-> m[(a + 1) % n]]

\* A roll of the columns to the right.
RollColsRight(m) ==
    LET n == NRows(m) IN
    [a \in 0 .. n - 1 |-> [b \in 0 .. n - 1 |-> m[a][(b + n - 1) % n]]]

\* numpy.roll(m, -1, axis=1): every column moves left by one.
RollCols(m) ==
    LET n == NRows(m) IN
    [a \in 0 .. n - 1 |-> [b \in 0 .. n - 1 |-> m[a][(b + 1) % n]]]

\* numpy.zeros((n, n))
Zeros(n) == [a \in 0 .. n - 1 |-> [b \in 0 .. n - 1 |-> 0]]

\* The matrix itself, for its transpose.
NotTransposed(m) == m

\* The transpose m.T
Transpose(m) ==
    LET n == NRows(m) IN [a \in 0 .. n - 1 |-> [b \in 0 .. n - 1 |-> m[b][a]]]

----------------------------------------------------------------------------
\* Multi-indices, monomials and polynomials (numpoly, chaospy.poly).

Min(a, b) == IF a < b THEN a ELSE b

\* seq[:n]
Take(seq, n) ==
    [p \in 0 .. Min(n, Cardinality(DOMAIN seq)) - 1 |-> seq[p]]

Range(f) == {f[x] : x \in DOMAIN f}

\* Total degree of the multi-index e.
Degree(e) == SumTo(e, Cardinality(DOMAIN e))

\* numpy.lexsort order of two multi-indices: the last dimension is the most
\* significant key, the first one when `r` (reverse) is set.
LexLess(a, b, r) ==
    \E p \in DOMAIN a :
        /\ a[p] < b[p]
        /\ \A q \in DOMAIN a :
              (IF r THEN q < p ELSE q > p) => a[q] = b[q]

\* numpoly.glexsort order: by total degree first when `g` (graded) is set.
GlexLess(a, b, g, r) ==
    IF g /\ Degree(a) # Degree(b)
    THEN Degree(a) < Degree(b)
    ELSE LexLess(a, b, r)

\* numpoly.glexindex(start, stop, dimensions=d, graded=g, reverse=r): the
\* multi-indices of total degree in [start, stop), sorted.
GlexIndex(start, stop, d, g, r) ==
    LET all == {e \in [0 .. d - 1 -> 0 .. stop - 1] :
                    Degree(e) >= start /\ Degree(e) < stop}
        rank(e) == Cardinality({x \in all : GlexLess(x, e, g, r)})
    IN [p \in 0 .. Cardinality(all) - 1 |-> CHOOSE e \in all : rank(e) = p]

\* A polynomial is a function from multi-indices to coefficients.
Monomial(e, universe) == [x \in universe |-> IF x = e THEN 1 ELSE 0]

\* chaospy.poly.basis(start, stop, d, graded=g, reverse=r, sort=s): the
\* monomials of total degree in [start, stop], ordered as the exponent
\* enumerator orders their multi-indices.
Basis(start, stop, d, g, r, s) ==
    LET idx == GlexIndex(start, stop + 1, d, g, r)
    IN [p \in DOMAIN idx |-> Monomial(idx[p], Range(idx))]

PolyScale(p, c) == [e \in DOMAIN p |-> p[e] * c]

PolyAdd(p, q) == [e \in DOMAIN p |-> p[e] + q[e]]

RECURSIVE PolySumTo(_, _)
\* row[0] + ... + row[n-1] of polynomials, n >= 1
PolySumTo(row, n) ==
    IF n = 1 THEN row[0] ELSE PolyAdd(PolySumTo(row, n - 1), row[n - 1])

\* vec * m for a vector of polynomials and a matrix of numbers: numpy
\* broadcasting pairs vec[b] with column b of m.
Broadcast(v, m) ==
    [a \in DOMAIN m |-> [b \in DOMAIN v |-> PolyScale(v[b], m[a][b])]]

\* chaospy.poly.sum(t, 1): the sum along axis 1.
PolySum1(t) ==
    [a \in DOMAIN t |-> PolySumTo(t[a], Cardinality(DOMAIN t[a]))]

RECURSIVE EvalTerms(_, _, _)
EvalTerms(p, x, todo) ==
    IF todo = {} THEN 0
    ELSE LET e == CHOOSE t \in todo : TRUE
             mono == [c \in DOMAIN e |-> Pow(x[c], e[c])]
         IN p[e] * ProdTo(mono, Cardinality(DOMAIN e))
              + EvalTerms(p, x, todo \ {e})

\* The value of polynomial p at the point x.
Eval(p, x) == EvalTerms(p, x, DOMAIN p)

----------------------------------------------------------------------------
\* The call.

Empty == << >>

\* The sort options one collaborator call receives; an option the call does
\* not pass is None.
SortOptions(g, r, s) ==
    [called |-> TRUE, graded |-> g, reverse |-> r, sort |-> s]

NotCalled ==
    [called |-> FALSE, graded |-> FALSE, reverse |-> FALSE, sort |-> NoSort]

Abs(x) == IF x < 0 THEN -x ELSE x

\* The points of the model: the origin and the unit points on each axis.
OnCross(data, a) ==
    LET co == [c \in DOMAIN data |-> Abs(data[c][a])]
    IN SumTo(co, Cardinality(DOMAIN data)) <= 1

Arrays(d, n) ==
    {x \in [0 .. d - 1 -> [0 .. n - 1 -> Vals]] :
        \A a \in 0 .. n - 1 : OnCross(x, a)}

\* The arrays a caller can pass: one-dimensional of shape (n,), held as a
\* single row, or two-dimensional of shape (d, n).
Inputs ==
    {[ndim |-> 1, data |-> x] :
        x \in UNION {Arrays(1, n) : n \in 1 .. MaxSize}}
    \cup
    {[ndim |-> 2, data |-> x] :
        x \in UNION {Arrays(d, n) : d \in Dims, n \in 1 .. MaxSize}}

Init ==
    /\ pc = "start"
    /\ input \in Inputs
    /\ graded \in BOOLEAN
    /\ reverse \in BOOLEAN
    /\ sort \in SortTokens
    /\ abscissas = Empty
    /\ dim = 0
    /\ size = 0
    /\ order = 0
    /\ indices = Empty
    /\ matrix = Empty
    /\ det = 0
    /\ vec = Empty
    /\ coeffs = [num |-> Empty, den |-> 1]
    /\ i = 0
    /\ j = 0
    /\ k = 0
    /\ out = [num |-> Empty, den |-> 1]
    /\ err = ""
    /\ glexArgs = NotCalled
    /\ basisArgs = NotCalled

\* Lines 52-57: conversion, reshape of a 1-D input to (1, size), order = 1.
Reshape ==
    /\ pc = "start"
    /\ abscissas' = input.data
    /\ dim' = Cardinality(DOMAIN input.data)
    /\ size' = Cardinality(DOMAIN input.data[0])
    /\ order' = 1
    /\ pc' = "order"
    /\ UNCHANGED <<input, graded, reverse, sort, indices, matrix, det, vec,
                   coeffs, i, j, k, out, err, glexArgs, basisArgs>>

\* The loop condition with <= for <.
OrderTooSmallOrEqual(o, d, n) == Comb(o + d, d) <= n

\* Line 58: the condition of the order loop.
OrderTooSmall(o, d, n) == Comb(o + d, d) < n

\* Lines 58-59: one iteration of the order loop.
OrderStep ==
    /\ pc = "order"
    /\ OrderTooSmall(order, dim, size)
    /\ order' = order + 1
    /\ UNCHANGED <<pc, input, graded, reverse, sort, abscissas, dim, size,
                   indices, matrix, det, vec, coeffs, i, j, k, out, err,
                   glexArgs, basisArgs>>

\* Line 63: numpy.mgrid[:n, :n]; idx[a][b] = a and idy[a][b] = b.
Mgrid(n) ==
    [idx |-> [a \in 0 .. n - 1 |-> [b \in 0 .. n - 1 |-> a]],
     idy |-> [a \in 0 .. n - 1 |-> [b \in 0 .. n - 1 |-> b]]]

\* abscissas.T: shape (size, dim)
PointsOf(absc, n) ==
    [a \in 0 .. n - 1 |-> [c \in DOMAIN absc |-> absc[c][a]]]

\* The matrix with idx and idy exchanged: rows index monomials.
VandermondeSwapped(absc, ind, n) ==
    LET grid == Mgrid(n)
        d == Cardinality(DOMAIN absc)
        base(a, b) == PointsOf(absc, n)[grid.idy[a][b]]
        expo(a, b) == ind[grid.idx[a][b]]
    IN [a \in 0 .. n - 1 |->
          [b \in 0 .. n - 1 |->
              ProdTo([c \in 0 .. d - 1 |-> Pow(base(a, b)[c], expo(a, b)[c])],
                     d)]]

\* Line 65: numpy.prod(abscissas.T[idx] ** indices[idy], -1).
Vandermonde(absc, ind, n) ==
    LET grid == Mgrid(n)
        d == Cardinality(DOMAIN absc)
        base(a, b) == PointsOf(absc, n)[grid.idx[a][b]]
        expo(a, b) == ind[grid.idy[a][b]]
    IN [a \in 0 .. n - 1 |->
          [b \in 0 .. n - 1 |->
              ProdTo([c \in 0 .. d - 1 |-> Pow(base(a, b)[c], expo(a, b)[c])],
                     d)]]

\* Lines 58 (exit), 61-65: the exponent set and the Vandermonde matrix.
BuildMatrix ==
    /\ pc = "order"
    /\ ~OrderTooSmall(order, dim, size)
    /\ glexArgs' = SortOptions(graded, reverse, NoSort)
    /\ indices' = Take(GlexIndex(0, order + 1, dim, graded, reverse), size)
    /\ matrix' = Vandermonde(abscissas, indices', size)
    /\ pc' = "det"
    /\ UNCHANGED <<input, graded, reverse, sort, abscissas, dim, size, order,
                   det, vec, coeffs, i, j, k, out, err, basisArgs>>

\* Line 66.
ComputeDet ==
    /\ pc = "det"
    /\ det' = Det(matrix)
    /\ pc' = "check"
    /\ UNCHANGED <<input, graded, reverse, sort, abscissas, dim, size, order,
                   indices, matrix, vec, coeffs, i, j, k, out, err,
                   glexArgs, basisArgs>>

\* Lines 67-69.
RaiseSingular ==
    /\ pc = "check"
    /\ det = 0
    /\ err' = "LinAlgError"
    /\ pc' = "raised"
    /\ UNCHANGED <<input, graded, reverse, sort, abscissas, dim, size, order,
                   indices, matrix, det, vec, coeffs, i, j, k, out,
                   glexArgs, basisArgs>>

\* The basis built without the test of line 67.
BuildBasisUnchecked ==
    /\ pc = "check"
    /\ basisArgs' = SortOptions(graded, reverse, sort)
    /\ vec' = Take(Basis(0, order, dim, graded, reverse, sort), size)
    /\ coeffs' = [num |-> Zeros(size), den |-> 1]
    /\ pc' = "branch"
    /\ UNCHANGED <<input, graded, reverse, sort, abscissas, dim, size, order,
                   indices, matrix, det, i, j, k, out, err, glexArgs>>

\* Lines 67 (false), 71-74: the monomial basis and the zero matrix.
BuildBasis ==
    /\ pc = "check"
    /\ det # 0
    /\ basisArgs' = SortOptions(graded, reverse, sort)
    /\ vec' = Take(Basis(0, order, dim, graded, reverse, sort), size)
    /\ coeffs' = [num |-> Zeros(size), den |-> 1]
    /\ pc' = "branch"
    /\ UNCHANGED <<input, graded, reverse, sort, abscissas, dim, size, order,
                   indices, matrix, det, i, j, k, out, err, glexArgs>>

\* The degree-0 basis returned unscaled.
SizeOneUnscaled ==
    /\ pc = "branch"
    /\ size = 1
    /\ dim * size = 1
    /\ out' = [num |-> Basis(0, 0, dim, graded, reverse, sort), den |-> 1]
    /\ pc' = "done"
    /\ UNCHANGED <<input, graded, reverse, sort, abscissas, dim, size, order,
                   indices, matrix, det, vec, coeffs, i, j, k, err,
                   glexArgs, basisArgs>>

\* Lines 76-78 when abscissas holds one number: the degree-0 basis times
\* abscissas.item().
SizeOne ==
    /\ pc = "branch"
    /\ size = 1
    /\ dim * size = 1
    /\ out' = [num |-> [p \in DOMAIN Basis(0, 0, dim, graded, reverse, sort) |->
                          PolyScale(Basis(0, 0, dim, graded, reverse, sort)[p],
                                    abscissas[0][0])],
               den |-> 1]
    /\ pc' = "done"
    /\ UNCHANGED <<input, graded, reverse, sort, abscissas, dim, size, order,
                   indices, matrix, det, vec, coeffs, i, j, k, err,
                   glexArgs, basisArgs>>

\* Lines 76-78 when abscissas holds several numbers: abscissas.item() raises
\* ValueError (only an array of size 1 converts to a scalar).
SizeOneItemError ==
    /\ pc = "branch"
    /\ size = 1
    /\ dim * size # 1
    /\ err' = "ValueError"
    /\ pc' = "raised"
    /\ UNCHANGED <<input, graded, reverse, sort, abscissas, dim, size, order,
                   indices, matrix, det, vec, coeffs, i, j, k, out,
                   glexArgs, basisArgs>>

\* Lines 80-82.
SizeTwo ==
    /\ pc = "branch"
    /\ size = 2
    /\ coeffs' = Inv(matrix)
    /\ out' = [num |-> PolySum1(Broadcast(vec, Transpose(coeffs'.num))),
               den |-> coeffs'.den]
    /\ pc' = "done"
    /\ UNCHANGED <<input, graded, reverse, sort, abscissas, dim, size, order,
                   indices, matrix, det, vec, i, j, k, err,
                   glexArgs, basisArgs>>

\* Lines 84-85: entering the loop over i.
LoopEnter ==
    /\ pc = "branch"
    /\ size > 2
    /\ i' = 0
    /\ pc' = "row"
    /\ UNCHANGED <<input, graded, reverse, sort, abscissas, dim, size, order,
                   indices, matrix, det, vec, coeffs, j, k, out, err,
                   glexArgs, basisArgs>>

\* Lines 85-90: one more i; k starts from the parity of i, j from 0.
RowBegin ==
    /\ pc = "row"
    /\ i < size
    /\ k' = IF i % 2 # 0 THEN 1 ELSE 0
    /\ j' = 0
    /\ pc' = "cell"
    /\ UNCHANGED <<input, graded, reverse, sort, abscissas, dim, size, order,
                   indices, matrix, det, vec, coeffs, i, out, err,
                   glexArgs, basisArgs>>

\* The checkerboard sign alone: minus for every odd k.
ContributionCheckerboard(m, kk, n) ==
    IF kk % 2 = 0 THEN Det(Trailing(m)) ELSE -Det(Trailing(m))

\* Lines 91-97: the signed minor added to coeffs[i, j].
Contribution(m, kk, n) ==
    IF kk % 2 = 0 THEN Det(Trailing(m))
    ELSE IF n % 2 = 0 THEN -Det(Trailing(m))
    ELSE Det(Trailing(m))

\* Lines 90-99: one cell, then the row roll and k += 1.
Cell ==
    /\ pc = "cell"
    /\ j < size
    /\ coeffs' = [coeffs EXCEPT
                    !.num[i][j] = @ + Contribution(matrix, k, size)]
    /\ matrix' = RollRows(matrix)
    /\ k' = k + 1
    /\ j' = j + 1
    /\ UNCHANGED <<pc, input, graded, reverse, sort, abscissas, dim, size,
                   order, indices, det, vec, i, out, err, glexArgs, basisArgs>>

\* Lines 90 (exhausted), 100: the column roll that ends the pass for i.
RowEnd ==
    /\ pc = "cell"
    /\ ~(j < size)
    /\ matrix' = RollCols(matrix)
    /\ i' = i + 1
    /\ pc' = "row"
    /\ UNCHANGED <<input, graded, reverse, sort, abscissas, dim, size, order,
                   indices, det, vec, coeffs, j, k, out, err,
                   glexArgs, basisArgs>>

\* Lines 85 (exhausted), 101-102: division by det and the assembly.
Finish ==
    /\ pc = "row"
    /\ ~(i < size)
    /\ coeffs' = [coeffs EXCEPT !.den = @ * det]
    /\ out' = [num |-> PolySum1(Broadcast(vec, Transpose(coeffs'.num))),
               den |-> coeffs'.den]
    /\ pc' = "done"
    /\ UNCHANGED <<input, graded, reverse, sort, abscissas, dim, size, order,
                   indices, matrix, det, vec, i, j, k, err,
                   glexArgs, basisArgs>>

Next ==
    \/ Reshape
    \/ OrderStep
    \/ BuildMatrix
    \/ ComputeDet
    \/ RaiseSingular
    \/ BuildBasis
    \/ SizeOne
    \/ SizeOneItemError
    \/ SizeTwo
    \/ LoopEnter
    \/ RowBegin
    \/ Cell
    \/ RowEnd
    \/ Finish

Spec == Init /\ [][Next]_vars

----------------------------------------------------------------------------
\* Properties.

\* The Vandermonde matrix as built at line 65, before any roll.
Original == Vandermonde(abscissas, indices, size)

\* The abscissa X[:, b]
Point(b) == [c \in 0 .. dim - 1 |-> abscissas[c][b]]

Finished == pc \in {"done", "raised"}

PastOrder == pc \notin {"start", "order"}

PastCheck == pc \notin {"start", "order", "det", "check"}

InLoop == pc \in {"row", "cell"}

MatMul(x, y) ==
    LET n == NRows(x) IN
    [a \in 0 .. n - 1 |->
        [b \in 0 .. n - 1 |->
            SumTo([c \in 0 .. n - 1 |-> x[a][c] * y[c][b]], n)]]

Scaled(d, n) ==
    [a \in 0 .. n - 1 |-> [b \in 0 .. n - 1 |-> IF a = b THEN d ELSE 0]]

\* C1: whenever the call returns polynomials P for abscissas X of size
\* n >= 1, P[a] evaluated at X[:, b] is 1 when a = b and 0 otherwise.
C1_DeltaProperty ==
    pc = "done" =>
        \A a, b \in 0 .. size - 1 :
            Eval(out.num[a], Point(b)) = IF a = b THEN out.den ELSE 0

\* C2: whenever the Vandermonde determinant is zero, in particular when two
\* abscissas coincide, the call ends with LinAlgError, and neither the
\* basis, nor a coefficient, nor an output has been built.
HasDuplicate ==
    \E a, b \in 0 .. size - 1 : a # b /\ Point(a) = Point(b)

C2_SingularRaises ==
    (PastCheck /\ (HasDuplicate \/ Det(Original) = 0)) =>
        /\ pc = "raised"
        /\ err = "LinAlgError"
        /\ vec = Empty
        /\ coeffs.num = Empty
        /\ out.num = Empty
        /\ ~basisArgs.called

C2_Witness ==
    /\ pc = "raised"
    /\ err = "LinAlgError"
    /\ HasDuplicate
    /\ size = 2

\* C3: a single point in one dimension with value v gives exactly one
\* polynomial, the constant v.
ConstantPoly(v, d) == [e \in {[c \in 0 .. d - 1 |-> 0]} |-> v]

C4_OnlySingularFails ==
    Finished =>
        /\ Det(Original) # 0 => pc = "done" /\ DOMAIN out.num = 0 .. size - 1
        /\ pc = "raised" => err = "LinAlgError"

\* C5: graded, reverse and sort reach the exponent enumerator and the
\* monomial-basis constructor unchanged: both calls receive the same options.
C5_SameSortOptions ==
    basisArgs.called =>
        /\ glexArgs = basisArgs
        /\ basisArgs = SortOptions(graded, reverse, sort)

\* C6: the order loop terminates (order never passes size while the loop
\* runs), with the smallest order >= 1 such that C(order + dim, dim) >= size,
\* and the enumeration truncated to `size` entries has `size` entries.
OrderIsMinimal ==
    /\ order >= 1
    /\ Comb(order + dim, dim) >= size
    /\ order = 1 \/ Comb(order - 1 + dim, dim) < size
    /\ pc # "det" => DOMAIN indices = 0 .. size - 1

C6_OrderSelection ==
    /\ pc = "order" => order >= 1 /\ order <= size
    /\ PastOrder => OrderIsMinimal

C6_Witness ==
    /\ PastOrder
    /\ dim = 2
    /\ size = 4
    /\ order = 2

\* C7: for size >= 3, even and odd, the matrix the roll loop accumulates is,
\* before the division, the textbook adjugate of the Vandermonde matrix M, so
\* M * coeffs = det(M) * identity, and after the division coeffs is the
\* inverse of M.
Computed(a, b) ==
    \/ a < i
    \/ pc = "cell" /\ a = i /\ b < j

C7_CofactorIsAdjugate ==
    /\ InLoop =>
          \A a, b \in 0 .. size - 1 :
              coeffs.num[a][b] =
                  IF Computed(a, b) THEN Adjugate(Original)[a][b] ELSE 0
    /\ (pc = "row" /\ i = size) =>
          /\ coeffs.den = 1
          /\ MatMul(Original, coeffs.num) = Scaled(Det(Original), size)
    /\ (pc = "done" /\ size >= 3) =>
          /\ coeffs.num = Adjugate(Original)
          /\ coeffs.den = Det(Original)
          /\ MatMul(Original, coeffs.num) = Scaled(coeffs.den, size)

C7_Witness ==
    /\ pc = "done"
    /\ size = 4
    /\ \E a, b \in 0 .. 3 : (a + b) % 2 = 1 /\ coeffs.num[a][b] # 0

\* C8 as stated: for size >= 2, output polynomial a is the sum over b of
\* basis[b] * coefficient_matrix[a, b].
RECURSIVE Combination(_, _, _)
\* weight[0] * v[0] + ... + weight[n-1] * v[n-1], n >= 1
Combination(v, weight, n) ==
    IF n = 1 THEN PolyScale(v[0], weight[0])
    ELSE PolyAdd(Combination(v, weight, n - 1),
                 PolyScale(v[n - 1], weight[n - 1]))

C8_RowWeights ==
    (pc = "done" /\ size >= 2) =>
        \A a \in 0 .. size - 1 :
            out.num[a] =
                Combination(vec, [b \in 0 .. size - 1 |-> coeffs.num[a][b]],
                            size)

\* C8, amended: for size >= 2, output polynomial a is the sum over b of
\* basis[b] * coefficient_matrix[b, a] (column a of the coefficient matrix),
\* over the divisor of the coefficient matrix.
C8_ColumnWeights ==
    (pc = "done" /\ size >= 2) =>
        /\ DOMAIN out.num = 0 .. size - 1
        /\ out.den = coeffs.den
        /\ \A a \in 0 .. size - 1 :
              out.num[a] =
                  Combination(vec, [b \in 0 .. size - 1 |-> coeffs.num[b][a]],
                              size)

C8_Witness ==
    /\ pc = "done"
    /\ size >= 2
    /\ coeffs.num # Transpose(coeffs.num)

\* C9: when cell (i, j) is computed the working matrix W satisfies
\* W[r, c] = M[(r + j) mod n, (c + i) mod n], so the trailing minor leaves out
\* exactly row j and column i of M; at loop exit W = M.
Rolled(m, down, right) ==
    LET n == NRows(m) IN
    [r \in 0 .. n - 1 |->
        [c \in 0 .. n - 1 |-> m[(r + down) % n][(c + right) % n]]]

C9_RollInvariant ==
    /\ pc = "cell" =>
          /\ matrix = Rolled(Original, j, i)
          /\ j < size =>
                \A r, c \in 0 .. size - 2 :
                    /\ Trailing(matrix)[r][c] =
                          Original[(r + 1 + j) % size][(c + 1 + i) % size]
                    /\ (r + 1 + j) % size # j
                    /\ (c + 1 + i) % size # i
    /\ pc = "row" => matrix = Rolled(Original, 0, i)
    /\ ((pc = "row" /\ i = size) \/ pc = "done") => matrix = Original

C9_Witness ==
    /\ pc = "cell"
    /\ i = 2
    /\ j = 1
    /\ matrix # Original
    /\ size = 4

\* C10: the matrix built at line 65 is size x size and its entry (a, b) is
\* the product over the dimensions c of abscissas[c, a] ** indices[b][c],
\* where x ** 0 = 1 also for x = 0.
RECURSIVE Power(_, _)
Power(x, e) == IF e = 0 THEN 1 ELSE Power(x, e - 1) * x

RECURSIVE ProductOver(_, _, _)
ProductOver(a, b, todo) ==
    IF todo = {} THEN 1
    ELSE LET c == CHOOSE t \in todo : TRUE
         IN Power(abscissas[c][a], indices[b][c])
              * ProductOver(a, b, todo \ {c})

C10_VandermondeEntries ==
    pc \in {"det", "check", "branch", "raised"} =>
        /\ DOMAIN matrix = 0 .. size - 1
        /\ \A a, b \in 0 .. size - 1 :
              /\ DOMAIN matrix[a] = 0 .. size - 1
              /\ matrix[a][b] = ProductOver(a, b, 0 .. dim - 1)
              /\ (\A c \in 0 .. dim - 1 : indices[b][c] = 0) =>
                    matrix[a][b] = 1

C10_Witness ==
    /\ pc = "det"
    /\ dim = 2
    /\ size = 4
    /\ \E a, b \in 0 .. 3 : matrix[a][b] = -1
    /\ \E a \in 0 .. 3 : Point(a) = [c \in 0 .. 1 |-> 0]

====
